---- MODULE Spec2Model ----
(***************************************************************************)
(* Model of audio_preprocessing.py: the filter-chain compiler              *)
(* (AudioPreprocessor._build_filter_chain) and the batch driver            *)
(* (main, AudioPreprocessor.setup, process_audio_files,                    *)
(* _process_single_file).                                                  *)
(*                                                                         *)
(* Text is modelled as a sequence of tokens: a file name "a_processed.wav" *)
(* is <<"a", "_processed", ".", "wav">>, a chain expression is the         *)
(* sequence of the pieces its f-string concatenates, and "," and "." are   *)
(* tokens of their own, so that joining, splitting, stem() and glob()      *)
(* are computed and not assumed.                                           *)
(***************************************************************************)
EXTENDS Integers, Sequences, FiniteSets, TLC

VARIABLES
    config,          \* self.config
    generate_config, \* args.generate_config
    ffmpeg,          \* outcome the environment gives to `ffmpeg -version`
    input_path,      \* args.input: [kind |-> "file" | "dir" | "none", name |-> ...]
    fs,              \* the files that exist: a set of [dir, name]
    dirs,            \* the directories that exist
    pc,              \* position of the main thread
    mode,            \* "none" | "single" | "pool": how process_audio_files runs the tasks
    audio_files,     \* the list process_audio_files built; task t is audio_files[t]
    status,          \* task -> "pending" | "running" | "Succeeded" | "Skipped" | "Failed"
    result,          \* task -> what _process_single_file returned or raised
    cmd,             \* task -> the command handed to subprocess.run (<<>> if none)
    calls,           \* task -> number of subprocess.run calls made for it
    execs,           \* task -> number of times _process_single_file was entered for it
    collected,       \* the futures the as_completed loop has taken
    log,             \* the records written to the logger
    run,             \* which call of the batch driver this is
    prevOk,          \* no task of the previous call of the driver ended Failed
    filter_chain     \* the value _build_filter_chain returned last

vars == <<config, generate_config, ffmpeg, input_path, fs, dirs, pc, mode,
          audio_files, status, result, cmd, calls, execs, collected, log,
          run, prevOk, filter_chain>>

-----------------------------------------------------------------------------
(* Bounds of the model. *)

\* at most this many entries in the input directory
MaxFiles == 3
\* worker threads of the pool
PoolSize == 2
\* calls of the batch driver on the same directory
MaxRuns == 2

-----------------------------------------------------------------------------
(* Text helpers. *)

RECURSIVE Join(_, _)
\* sep.join(parts): the separator between the parts, never around them
Join(sep, parts) ==
    IF parts = <<>> THEN <<>>
    ELSE IF Len(parts) = 1 THEN Head(parts)
    ELSE Head(parts) \o <<sep>> \o Join(sep, Tail(parts))

RECURSIVE Split(_, _)
\* s.split(sep): the pieces between the separators (one piece for a text
\* without separator, the empty text included)
Split(s, sep) ==
    IF \E i \in 1..Len(s) : s[i] = sep
    THEN LET i == CHOOSE k \in 1..Len(s) :
                    s[k] = sep /\ \A j \in 1..(k - 1) : s[j] # sep
         IN  <<SubSeq(s, 1, i - 1)>> \o Split(SubSeq(s, i + 1, Len(s)), sep)
    ELSE <<s>>

\* position of the last "." of a name, 0 if there is none
LastDot(name) ==
    IF \E i \in 1..Len(name) : name[i] = "."
    THEN CHOOSE i \in 1..Len(name) :
             name[i] = "." /\ \A j \in (i + 1)..Len(name) : name[j] # "."
    ELSE 0

\* pathlib's PurePath.stem: the name without its last suffix; a leading or a
\* trailing dot starts no suffix
stem(name) ==
    LET i == LastDot(name)
    IN  IF 1 < i /\ i < Len(name) THEN SubSeq(name, 1, i - 1) ELSE name

EndsWith(name, tail) ==
    /\ Len(name) >= Len(tail)
    /\ SubSeq(name, Len(name) - Len(tail) + 1, Len(name)) = tail

\* a YAML number rendered by an f-string: an int in decimal, a float (held in
\* tenths) with one fractional digit
PyStr(n) ==
    IF n.k = "int" THEN <<ToString(n.v)>>
    ELSE LET a == IF n.v < 0 THEN -n.v ELSE n.v
         IN  (IF n.v < 0 THEN <<"-">> ELSE <<>>)
                 \o <<ToString(a \div 10), ".", ToString(a % 10)>>

YInt(v) == [k |-> "int", v |-> v]
YFloat(v) == [k |-> "float", v |-> v]

-----------------------------------------------------------------------------
(* The configuration. *)

DefaultPreprocessing ==
    [noise_reduction |-> [enabled |-> TRUE, strength |-> "medium"],
     normalization |-> [enabled |-> TRUE, target_level |-> YInt(-16),
                        true_peak |-> YFloat(-15)],
     compression |-> [enabled |-> FALSE, threshold |-> YInt(-20), ratio |-> YInt(4),
                      attack |-> YInt(5), release |-> YInt(50)],
     eq |-> [enabled |-> FALSE, preset |-> "speech"],
     keys |-> <<"noise_reduction", "normalization", "compression", "eq">>]

\* the configuration load_config falls back to
DefaultConfig ==
    [output |-> [format |-> "wav", directory |-> "processed_audio",
                 suffix |-> <<"_processed">>],
     compression |-> [enabled |-> TRUE, format |-> "m4a", codec |-> "aac",
                      bitrate |-> "128k"],
     preprocessing |-> DefaultPreprocessing]

\* the defaults as generate_config_file writes them and load_config reads them
\* back: yaml.dump lists the keys of a mapping in sorted order
DumpedConfig ==
    [DefaultConfig EXCEPT !.preprocessing.keys =
        <<"compression", "eq", "noise_reduction", "normalization">>]

StageKeys == {"noise_reduction", "normalization", "compression", "eq"}

\* the orders in which a document can list the four stages
KeyOrders ==
    {s \in [1..4 -> StageKeys] : \A i, j \in 1..4 : i # j => s[i] # s[j]}

Strengths == {"low", "medium", "high", "extreme", "null"}
\* stands for a noise_reduction mapping that has no "strength" key
Absent == "<absent>"
Presets == {"speech", "music", "custom"}

\* every preprocessing section the compiler is checked on
PreprocessingSpace ==
    {[noise_reduction |-> (IF st = Absent THEN [enabled |-> nr]
                           ELSE [enabled |-> nr, strength |-> st]),
      normalization |-> [enabled |-> no, target_level |-> YInt(-16),
                         true_peak |-> YFloat(-15)],
      compression |-> [enabled |-> dc, threshold |-> YInt(-20), ratio |-> YInt(4),
                       attack |-> YInt(5), release |-> YInt(50)],
      eq |-> [enabled |-> eq, preset |-> ps],
      keys |-> ks] :
        nr \in BOOLEAN, st \in Strengths \cup {Absent}, no \in BOOLEAN, dc \in BOOLEAN,
        eq \in BOOLEAN, ps \in Presets, ks \in KeyOrders}

AllDisabled ==
    [DefaultPreprocessing EXCEPT !.noise_reduction.enabled = FALSE,
                                 !.normalization.enabled = FALSE]

-----------------------------------------------------------------------------
(* The filter-chain compiler. *)

\* strength_map.get(strength, "0.4")
strength_map(strength) ==
    CASE strength = "low" -> "0.2"
      [] strength = "medium" -> "0.4"
      [] strength = "high" -> "0.6"
      [] OTHER -> "0.4"

noise_filters(p) ==
    IF p.noise_reduction.enabled
    THEN << <<"afftdn=nr=", strength_map(p.noise_reduction.strength), ":nf=-25">> >>
    ELSE <<>>

norm_filters(p) ==
    IF p.normalization.enabled
    THEN << <<"loudnorm=I=">> \o PyStr(p.normalization.target_level)
              \o <<":TP=">> \o PyStr(p.normalization.true_peak) \o <<":LRA=7">> >>
    ELSE <<>>

comp_filters(p) ==
    IF p.compression.enabled
    THEN << <<"acompressor=threshold=">> \o PyStr(p.compression.threshold)
              \o <<"dB:ratio=">> \o PyStr(p.compression.ratio)
              \o <<":attack=">> \o PyStr(p.compression.attack)
              \o <<":release=">> \o PyStr(p.compression.release) >>
    ELSE <<>>

speech_bands ==
    << <<"equalizer=f=100:width_type=h:width=200:g=-3">>,
       <<"equalizer=f=300:width_type=h:width=200:g=2">>,
       <<"equalizer=f=1500:width_type=h:width=1000:g=3">>,
       <<"equalizer=f=4000:width_type=h:width=1000:g=1">>,
       <<"equalizer=f=8000:width_type=h:width=2000:g=-2">> >>

music_bands ==
    << <<"equalizer=f=60:width_type=h:width=100:g=1">>,
       <<"equalizer=f=300:width_type=h:width=200:g=0">>,
       <<"equalizer=f=1500:width_type=h:width=1000:g=1">>,
       <<"equalizer=f=6000:width_type=h:width=2000:g=2">> >>

\* an equalization block that does not look at its enabled flag
eq_filters_always(p) ==
    CASE p.eq.preset = "speech" -> speech_bands
      [] p.eq.preset = "music" -> music_bands
      [] OTHER -> <<>>

eq_filters(p) ==
    IF p.eq.enabled
    THEN CASE p.eq.preset = "speech" -> speech_bands
           [] p.eq.preset = "music" -> music_bands
           [] OTHER -> <<>>
    ELSE <<>>

\* the filters one stage appends
stage_filters(key, p) ==
    CASE key = "noise_reduction" -> noise_filters(p)
      [] key = "normalization" -> norm_filters(p)
      [] key = "compression" -> comp_filters(p)
      [] key = "eq" -> eq_filters(p)

\* a compiler that visits the stages in the order the document lists them
filters_in_key_order(p) ==
    stage_filters(p.keys[1], p) \o stage_filters(p.keys[2], p)
        \o stage_filters(p.keys[3], p) \o stage_filters(p.keys[4], p)

\* the list `filters` at line 252: the four blocks appended in program order
filters_of(p) ==
    noise_filters(p) \o norm_filters(p) \o comp_filters(p) \o eq_filters(p)

\* a join that also closes the chain with a separator
join_trailing(filters) ==
    IF filters = <<>> THEN <<>> ELSE Join(",", filters) \o <<",">>

\* lines 252-256
join_filters(filters) ==
    IF filters # <<>> THEN Join(",", filters) ELSE <<>>

\* line 200: config["preprocessing"]["noise_reduction"]["strength"] raises
\* KeyError when the mapping has no such key; "" when nothing is raised
build_error(cfg) ==
    IF /\ cfg.preprocessing.noise_reduction.enabled
       /\ "strength" \notin DOMAIN cfg.preprocessing.noise_reduction
    THEN "KeyError"
    ELSE ""

\* the value returned, when nothing is raised
_build_filter_chain(cfg) == join_filters(filters_of(cfg.preprocessing))

-----------------------------------------------------------------------------
(* Paths and the per-file derivations of _process_single_file. *)

InputDir == "in"

Path(d, n) == [dir |-> d, name |-> n]
NoPath == Path("", <<>>)

\* str(path)
str(p) == <<p.dir, "/">> \o p.name

\* f"{file_path.stem}{suffix}.{fmt}"
output_filename(cfg, file, fmt) == stem(file) \o cfg.output.suffix \o <<".", fmt>>

\* lines 129-130: the path whose existence decides the skip
skip_check_path(cfg, file) ==
    Path(cfg.output.directory, output_filename(cfg, file, cfg.output.format))

\* an output path that keeps the base format
output_path_base_format(cfg, file) == skip_check_path(cfg, file)

\* lines 143-151: the path handed to the engine
output_path(cfg, file) ==
    IF cfg.compression.enabled /\ cfg.compression.format # cfg.output.format
    THEN Path(cfg.output.directory,
              output_filename(cfg, file, cfg.compression.format))
    ELSE skip_check_path(cfg, file)

\* encoding options that ask for PCM whatever the base format
encoding_options_always_pcm(cfg) ==
    IF cfg.compression.enabled
    THEN << <<"-c:a">>, <<cfg.compression.codec>>,
            <<"-b:a">>, <<cfg.compression.bitrate>> >>
    ELSE << <<"-c:a">>, <<"pcm_s16le">> >>

\* lines 142-164
encoding_options(cfg) ==
    IF cfg.compression.enabled
    THEN << <<"-c:a">>, <<cfg.compression.codec>>,
            <<"-b:a">>, <<cfg.compression.bitrate>> >>
    ELSE IF cfg.output.format = "wav"
         THEN << <<"-c:a">>, <<"pcm_s16le">> >>
         ELSE <<>>

\* a command that passes -filter_complex even with an empty chain
command_always_filter(cfg, file) ==
    << <<"ffmpeg">>, <<"-i">>, str(Path(InputDir, file)),
       <<"-filter_complex">>, _build_filter_chain(cfg) >>
        \o encoding_options(cfg)
        \o << <<"-y">>, str(output_path(cfg, file)) >>

\* lines 167-177: the argument list, each argument a text
command(cfg, file) ==
    LET chain == _build_filter_chain(cfg)
    IN  << <<"ffmpeg">>, <<"-i">>, str(Path(InputDir, file)) >>
        \o (IF chain # <<>> THEN << <<"-filter_complex">>, chain >> ELSE <<>>)
        \o encoding_options(cfg)
        \o << <<"-y">>, str(output_path(cfg, file)) >>

\* the output argument of a command
cmd_output(c) == c[Len(c)]

-----------------------------------------------------------------------------
(* Exceptions. *)

\* subprocess.run(check=True) raises CalledProcessError, a SubprocessError, on
\* a non-zero exit, and an OSError such as FileNotFoundError when the program
\* cannot be started
IsSubprocessError(e) == e = "CalledProcessError"

\* line 86: except (subprocess.SubprocessError, FileNotFoundError)
check_catches(e) == IsSubprocessError(e) \/ e = "FileNotFoundError"

\* line 190: except subprocess.SubprocessError
process_catches(e) == IsSubprocessError(e)

\* a driver that lets a task's exception out of the loop
collect_catches_nothing(e) == FALSE

\* line 118: except Exception
collect_catches(e) == e \in {"CalledProcessError", "FileNotFoundError", "KeyError"}

-----------------------------------------------------------------------------
(* The input directory. *)

Universe ==
    { <<"a", ".", "wav">>, <<"a", ".", "mp3">>, <<"b", ".", "wav">>,
      <<"readme", ".", "txt">> }

\* an extension list that names .wav twice
audio_extensions_twice ==
    << <<".", "wav">>, <<".", "mp3">>, <<".", "m4a">>, <<".", "wav">>,
       <<".", "aac">>, <<".", "ogg">>, <<".", "flac">> >>

\* line 98
audio_extensions ==
    << <<".", "wav">>, <<".", "mp3">>, <<".", "m4a">>, <<".", "aac">>,
       <<".", "ogg">>, <<".", "flac">> >>

\* a listing that also descends into the subdirectory
entries_recursive(files, d) ==
    {p.name : p \in {q \in files : q.dir \in {d, d \o "/sub"}}}

\* the entries of a directory
entries(files, d) == {p.name : p \in {q \in files : q.dir = d}}

\* the orders in which a listing can return the names of S
Orderings(S) ==
    {s \in [1..Cardinality(S) -> S] :
        \A i, j \in 1..Cardinality(S) : i # j => s[i] # s[j]}

\* input_path.glob(f"*{ext}"): the entries whose name ends with ext
glob(files, d, ext) == {n \in entries(files, d) : EndsWith(n, ext)}

RECURSIVE GlobFrom(_, _, _)
\* lines 101-102: the lists the loop can build from extension i on
GlobFrom(files, d, i) ==
    IF i > Len(audio_extensions) THEN {<<>>}
    ELSE {h \o t : h \in Orderings(glob(files, d, audio_extensions[i])),
                   t \in GlobFrom(files, d, i + 1)}

-----------------------------------------------------------------------------
(* Tasks. *)

Tasks == 1..Len(audio_files)

Terminal == {"Succeeded", "Skipped", "Failed"}

Pending == [kind |-> "pending", path |-> NoPath, exc |-> ""]
Returned(p) == [kind |-> "path", path |-> p, exc |-> ""]
ReturnedNone == [kind |-> "None", path |-> NoPath, exc |-> ""]
Raised(e) == [kind |-> "exception", path |-> NoPath, exc |-> e]

Log(level, line, file) == [level |-> level, line |-> line, file |-> file]

\* the work items a worker thread has taken off the queue: items leave the
\* queue in submission order, one per free worker
Dequeued(t) ==
    mode = "pool" =>
        Cardinality({u \in Tasks : u < t /\ status[u] \notin Terminal}) < PoolSize

NewTasks(files) ==
    /\ audio_files' = files
    /\ status' = [t \in 1..Len(files) |-> "pending"]
    /\ result' = [t \in 1..Len(files) |-> Pending]
    /\ cmd' = [t \in 1..Len(files) |-> <<>>]
    /\ calls' = [t \in 1..Len(files) |-> 0]
    /\ execs' = [t \in 1..Len(files) |-> 0]
    /\ collected' = {}

TaskVarsUnchanged ==
    UNCHANGED <<audio_files, status, result, cmd, calls, execs, collected>>

EnvUnchanged == UNCHANGED <<generate_config, ffmpeg, input_path>>

-----------------------------------------------------------------------------
(* main and the construction of the AudioPreprocessor. *)

\* lines 308-311: --generate-config writes the defaults to the configuration
\* file, which load_config then reads; with no input the run ends there
MainGenerate ==
    /\ pc = "main"
    /\ IF generate_config
       THEN /\ config' = DumpedConfig
            /\ log' = log \cup {Log("info", 299, <<>>)}
            /\ pc' = IF input_path.kind = "none" THEN "done" ELSE "init"
       ELSE /\ pc' = "init"
            /\ UNCHANGED <<config, log>>
    /\ EnvUnchanged /\ TaskVarsUnchanged
    /\ UNCHANGED <<fs, dirs, mode, run, prevOk, filter_chain>>

\* a dependency check that reports the missing engine and goes on
check_dependencies_goes_on(probe) ==
    IF probe = "ok" \/ check_catches(probe) THEN "constructed" ELSE "raised"

\* lines 77-88: where the main thread is after _check_dependencies
check_dependencies(probe) ==
    IF probe = "ok" THEN "constructed"
    ELSE IF check_catches(probe) THEN "exited"
    ELSE "raised"

\* lines 20-23, 69-88: AudioPreprocessor(args.config)
Construct ==
    /\ pc = "init"
    /\ dirs' = dirs \cup {config.output.directory}
    /\ pc' = check_dependencies(ffmpeg)
    /\ log' = log \cup (IF ffmpeg = "ok" THEN {Log("info", 85, <<>>)}
                        ELSE IF check_catches(ffmpeg) THEN {Log("error", 87, <<>>)}
                        ELSE {})
    /\ EnvUnchanged /\ TaskVarsUnchanged
    /\ UNCHANGED <<config, fs, mode, run, prevOk, filter_chain>>

-----------------------------------------------------------------------------
(* process_audio_files. *)

\* lines 94-95: the input is a file
ProcessFile ==
    /\ pc = "constructed"
    /\ input_path.kind = "file"
    /\ Path(InputDir, input_path.name) \in fs
    /\ NewTasks(<<input_path.name>>)
    /\ mode' = "single"
    /\ pc' = "single"
    /\ EnvUnchanged
    /\ UNCHANGED <<config, fs, dirs, log, run, prevOk, filter_chain>>

\* lines 96-113: the input is a directory
ProcessDir ==
    /\ pc = "constructed"
    /\ input_path.kind = "dir"
    /\ InputDir \in dirs
    /\ \E files \in GlobFrom(fs, InputDir, 1) :
          IF files = <<>>
          THEN /\ log' = log \cup {Log("warning", 105, <<>>)}
               /\ pc' = "returned"
               /\ mode' = "none"
               /\ TaskVarsUnchanged
          ELSE /\ log' = log \cup {Log("info", 108, <<>>)}
               /\ NewTasks(files)
               /\ mode' = "pool"
               /\ pc' = "pool"
    /\ EnvUnchanged
    /\ UNCHANGED <<config, fs, dirs, run, prevOk, filter_chain>>

\* a driver that fails on a missing input
ProcessMissing_raises ==
    /\ pc = "constructed"
    /\ input_path.kind = "none"
    /\ pc' = "raised"
    /\ EnvUnchanged /\ TaskVarsUnchanged
    /\ UNCHANGED <<config, fs, dirs, mode, log, run, prevOk, filter_chain>>

\* lines 120-121: the input is neither
ProcessMissing ==
    /\ pc = "constructed"
    /\ input_path.kind = "none"
    /\ log' = log \cup {Log("error", 121, <<>>)}
    /\ pc' = "returned"
    /\ EnvUnchanged /\ TaskVarsUnchanged
    /\ UNCHANGED <<config, fs, dirs, mode, run, prevOk, filter_chain>>

-----------------------------------------------------------------------------
(* _process_single_file. *)

\* lines 123-137: the output checked for exists, the file is skipped
SkipTask(t) ==
    /\ t \in Tasks
    /\ pc \in {"single", "pool"}
    /\ status[t] = "pending"
    /\ Dequeued(t)
    /\ skip_check_path(config, audio_files[t]) \in fs
    /\ execs' = [execs EXCEPT ![t] = @ + 1]
    /\ status' = [status EXCEPT ![t] = "Skipped"]
    /\ result' = [result EXCEPT ![t] = Returned(skip_check_path(config, audio_files[t]))]
    /\ log' = log \cup {Log("info", 132, audio_files[t]), Log("info", 136, audio_files[t])}
    /\ EnvUnchanged
    /\ UNCHANGED <<config, fs, dirs, pc, mode, audio_files, cmd, calls, collected,
                   run, prevOk, filter_chain>>

\* a task that stores the format it chose in the shared configuration
LaunchTask_updates_config(t) ==
    /\ t \in Tasks
    /\ pc \in {"single", "pool"}
    /\ status[t] = "pending"
    /\ Dequeued(t)
    /\ skip_check_path(config, audio_files[t]) \notin fs
    /\ build_error(config) = ""
    /\ execs' = [execs EXCEPT ![t] = @ + 1]
    /\ filter_chain' = _build_filter_chain(config)
    /\ cmd' = [cmd EXCEPT ![t] = command(config, audio_files[t])]
    /\ calls' = [calls EXCEPT ![t] = @ + 1]
    /\ status' = [status EXCEPT ![t] = "running"]
    /\ log' = log \cup {Log("info", 132, audio_files[t]),
                         Log("info", 181, audio_files[t])}
    /\ config' = IF config.compression.enabled
                 THEN [config EXCEPT !.output.format = config.compression.format]
                 ELSE config
    /\ EnvUnchanged
    /\ UNCHANGED <<fs, dirs, pc, mode, audio_files, result, collected, run, prevOk>>

\* lines 123-187: no such output; the command is built and subprocess.run
\* starts the engine. An exception of _build_filter_chain (line 140, outside
\* the try) leaves _process_single_file
LaunchTask(t) ==
    /\ t \in Tasks
    /\ pc \in {"single", "pool"}
    /\ status[t] = "pending"
    /\ Dequeued(t)
    /\ skip_check_path(config, audio_files[t]) \notin fs
    /\ execs' = [execs EXCEPT ![t] = @ + 1]
    /\ IF build_error(config) # ""
       THEN /\ status' = [status EXCEPT ![t] = "Failed"]
            /\ result' = [result EXCEPT ![t] = Raised(build_error(config))]
            /\ log' = log \cup {Log("info", 132, audio_files[t])}
            /\ UNCHANGED <<filter_chain, cmd, calls>>
       ELSE /\ filter_chain' = _build_filter_chain(config)
            /\ cmd' = [cmd EXCEPT ![t] = command(config, audio_files[t])]
            /\ calls' = [calls EXCEPT ![t] = @ + 1]
            /\ status' = [status EXCEPT ![t] = "running"]
            /\ log' = log \cup {Log("info", 132, audio_files[t]),
                                 Log("info", 181, audio_files[t])}
            /\ UNCHANGED result
    /\ EnvUnchanged
    /\ UNCHANGED <<config, fs, dirs, pc, mode, audio_files, collected, run, prevOk>>

\* lines 182-189: the engine exits with status zero, its output written
EngineSucceeds(t) ==
    /\ t \in Tasks
    /\ status[t] = "running"
    /\ fs' = fs \cup {output_path(config, audio_files[t])}
    /\ status' = [status EXCEPT ![t] = "Succeeded"]
    /\ result' = [result EXCEPT ![t] = Returned(output_path(config, audio_files[t]))]
    /\ log' = log \cup {Log("info", 188, audio_files[t])}
    /\ EnvUnchanged
    /\ UNCHANGED <<config, dirs, pc, mode, audio_files, cmd, calls, execs, collected,
                   run, prevOk, filter_chain>>

\* lines 182-192: subprocess.run raises e: CalledProcessError when the engine
\* exits non-zero (it may have left a partial output), FileNotFoundError when
\* it could not be started
EngineFails(t) ==
    /\ t \in Tasks
    /\ status[t] = "running"
    /\ \E e \in {"CalledProcessError", "FileNotFoundError"} :
          /\ \/ fs' = fs
             \/ /\ e = "CalledProcessError"
                /\ fs' = fs \cup {output_path(config, audio_files[t])}
          /\ status' = [status EXCEPT ![t] = "Failed"]
          /\ IF process_catches(e)
             THEN /\ result' = [result EXCEPT ![t] = ReturnedNone]
                  /\ log' = log \cup {Log("error", 191, audio_files[t])}
             ELSE /\ result' = [result EXCEPT ![t] = Raised(e)]
                  /\ log' = log
    /\ EnvUnchanged
    /\ UNCHANGED <<config, dirs, pc, mode, audio_files, cmd, calls, execs, collected,
                   run, prevOk, filter_chain>>

\* line 95: the call made for a single file returns, or its exception goes up
ReturnSingle ==
    /\ pc = "single"
    /\ status[1] \in Terminal
    /\ pc' = IF result[1].kind = "exception" THEN "raised" ELSE "returned"
    /\ EnvUnchanged /\ TaskVarsUnchanged
    /\ UNCHANGED <<config, fs, dirs, mode, log, run, prevOk, filter_chain>>

-----------------------------------------------------------------------------
(* The pool: lines 110-119. *)

\* lines 115-119: as_completed yields a finished future; its exception, if
\* any, is caught and logged
Collect(t) ==
    /\ t \in Tasks
    /\ pc = "pool"
    /\ t \notin collected
    /\ status[t] \in Terminal
    /\ collected' = collected \cup {t}
    /\ IF result[t].kind = "exception"
       THEN IF collect_catches(result[t].exc)
            THEN /\ log' = log \cup {Log("error", 119, <<>>)}
                 /\ pc' = pc
            ELSE /\ log' = log
                 /\ pc' = "raised"
       ELSE UNCHANGED <<log, pc>>
    /\ EnvUnchanged
    /\ UNCHANGED <<config, fs, dirs, mode, audio_files, status, result, cmd, calls,
                   execs, run, prevOk, filter_chain>>

\* a driver that submits the tasks and returns at once
pool_exit_at_once == TRUE

\* lines 111-119: the loop has taken every future, and leaving the `with`
\* block (shutdown(wait=True)) has joined every worker
pool_exit_ready ==
    /\ collected = Tasks
    /\ \A t \in Tasks : status[t] \in Terminal

\* the `with` block is left and process_audio_files returns
PoolExit ==
    /\ pc = "pool"
    /\ pool_exit_ready
    /\ pc' = "returned"
    /\ EnvUnchanged /\ TaskVarsUnchanged
    /\ UNCHANGED <<config, fs, dirs, mode, log, run, prevOk, filter_chain>>

\* the batch driver is called again on the same input, same configuration
Rerun ==
    /\ pc = "returned"
    /\ mode = "pool"
    /\ run < MaxRuns
    /\ run' = run + 1
    /\ pc' = "constructed"
    /\ mode' = "none"
    /\ NewTasks(<<>>)
    /\ log' = {}
    /\ prevOk' = (\A t \in Tasks : status[t] # "Failed")
    /\ EnvUnchanged
    /\ UNCHANGED <<config, fs, dirs, filter_chain>>

-----------------------------------------------------------------------------
(* The compiler alone: lines 194-256 applied to a configuration. *)

Compile ==
    /\ pc = "compile"
    /\ IF build_error(config) # ""
       THEN /\ pc' = "raised"
            /\ UNCHANGED filter_chain
       ELSE /\ filter_chain' = _build_filter_chain(config)
            /\ pc' = "compiled"
    /\ EnvUnchanged /\ TaskVarsUnchanged
    /\ UNCHANGED <<config, fs, dirs, mode, log, run, prevOk>>

InitCompile ==
    /\ config \in {[DefaultConfig EXCEPT !.preprocessing = p] : p \in PreprocessingSpace}
    /\ generate_config = FALSE
    /\ ffmpeg = "ok"
    /\ input_path = [kind |-> "none", name |-> <<>>]
    /\ fs = {}
    /\ dirs = {}
    /\ pc = "compile"
    /\ mode = "none"
    /\ audio_files = <<>>
    /\ status = <<>>
    /\ result = <<>>
    /\ cmd = <<>>
    /\ calls = <<>>
    /\ execs = <<>>
    /\ collected = {}
    /\ log = {}
    /\ run = 1
    /\ prevOk = FALSE
    /\ filter_chain = <<>>

NextCompile == Compile

SpecCompile == InitCompile /\ [][NextCompile]_vars

-----------------------------------------------------------------------------
(* The whole program. *)

OutputFormats == {"wav", "mp3"}
CompressionFormats == {"m4a", "wav"}
Suffixes == {<<"_processed">>}
OutputDirs == {"processed_audio"}

Configs ==
    {[output |-> [format |-> f, directory |-> d, suffix |-> sx],
      compression |-> [enabled |-> ce, format |-> cf, codec |-> "aac",
                       bitrate |-> "128k"],
      preprocessing |-> p] :
        f \in OutputFormats, d \in OutputDirs, sx \in Suffixes, ce \in BOOLEAN,
        cf \in CompressionFormats, p \in {DefaultPreprocessing, AllDisabled}}

\* outputs an earlier run may have left for a.wav
EarlierOutputs(cfg) ==
    {skip_check_path(cfg, <<"a", ".", "wav">>), output_path(cfg, <<"a", ".", "wav">>)}

\* the states main can start in, for the given configurations, command lines
\* and engine probes
InitOver(cfgs, gens, probes) ==
    /\ config \in cfgs
    /\ generate_config \in gens
    /\ ffmpeg \in probes
    /\ \E names \in SUBSET Universe, old \in SUBSET EarlierOutputs(config) :
          /\ Cardinality(names) <= MaxFiles
          /\ fs = {Path(InputDir, n) : n \in names} \cup old
          /\ \/ input_path = [kind |-> "dir", name |-> <<>>]
             \/ /\ names = {}
                /\ input_path = [kind |-> "none", name |-> <<>>]
             \/ \E n \in names :
                   /\ names = {n}
                   /\ input_path = [kind |-> "file", name |-> n]
          /\ dirs = (IF old = {} THEN {} ELSE {config.output.directory})
                        \cup (IF input_path.kind = "none" THEN {} ELSE {InputDir})
    /\ pc = "main"
    /\ mode = "none"
    /\ audio_files = <<>>
    /\ status = <<>>
    /\ result = <<>>
    /\ cmd = <<>>
    /\ calls = <<>>
    /\ execs = <<>>
    /\ collected = {}
    /\ log = {}
    /\ run = 1
    /\ prevOk = FALSE
    /\ filter_chain = <<>>

Init ==
    InitOver(Configs, BOOLEAN, {"ok", "CalledProcessError", "FileNotFoundError"})

Next ==
    \/ MainGenerate
    \/ Construct
    \/ ProcessFile
    \/ ProcessDir
    \/ ProcessMissing
    \/ \E t \in Tasks : SkipTask(t)
    \/ \E t \in Tasks : LaunchTask(t)
    \/ \E t \in Tasks : EngineSucceeds(t)
    \/ \E t \in Tasks : EngineFails(t)
    \/ ReturnSingle
    \/ \E t \in Tasks : Collect(t)
    \/ PoolExit
    \/ Rerun

Spec == Init /\ [][Next]_vars

\* the worker threads run, every engine invocation ends, and the main thread
\* runs its loop
Fairness ==
    /\ \A t \in 1..MaxFiles : WF_vars(SkipTask(t))
    /\ \A t \in 1..MaxFiles : WF_vars(LaunchTask(t))
    /\ \A t \in 1..MaxFiles : WF_vars(EngineSucceeds(t) \/ EngineFails(t))
    /\ \A t \in 1..MaxFiles : WF_vars(Collect(t))
    /\ WF_vars(PoolExit)
    /\ WF_vars(ReturnSingle)

\* the runs with the engine installed, under the default configuration and
\* under the default with compression off
InitLive ==
    InitOver({DefaultConfig, [DefaultConfig EXCEPT !.compression.enabled = FALSE]},
             {FALSE}, {"ok"})

SpecLive == InitLive /\ [][Next]_vars /\ Fairness

-----------------------------------------------------------------------------
(* One call of the driver over a wider range of configurations. *)

Encoders == {[codec |-> "aac", bitrate |-> "128k"],
             [codec |-> "libmp3lame", bitrate |-> "192k"]}

WideConfigs ==
    {[output |-> [format |-> f, directory |-> d, suffix |-> sx],
      compression |-> [enabled |-> ce, format |-> cf, codec |-> e.codec,
                       bitrate |-> e.bitrate],
      preprocessing |-> p] :
        f \in OutputFormats, d \in OutputDirs \cup {InputDir},
        sx \in Suffixes \cup {<<>>}, ce \in BOOLEAN, cf \in CompressionFormats,
        e \in Encoders, p \in {DefaultPreprocessing, AllDisabled}}

WideUniverse ==
    { <<"a", ".", "wav">>, <<"a", ".", "m4a">>, <<"a", ".", "b", ".", "wav">> }

InitWide ==
    /\ config \in WideConfigs
    /\ generate_config = FALSE
    /\ ffmpeg = "ok"
    /\ \E names \in SUBSET WideUniverse :
          /\ Cardinality(names) <= MaxFiles
          /\ fs = {Path(InputDir, n) : n \in names}
          /\ \/ input_path = [kind |-> "dir", name |-> <<>>]
             \/ /\ names = {}
                /\ input_path = [kind |-> "none", name |-> <<>>]
             \/ \E n \in names :
                   /\ names = {n}
                   /\ input_path = [kind |-> "file", name |-> n]
          /\ dirs = IF input_path.kind = "none" THEN {} ELSE {InputDir}
    /\ pc = "main"
    /\ mode = "none"
    /\ audio_files = <<>>
    /\ status = <<>>
    /\ result = <<>>
    /\ cmd = <<>>
    /\ calls = <<>>
    /\ execs = <<>>
    /\ collected = {}
    /\ log = {}
    /\ run = 1
    /\ prevOk = FALSE
    /\ filter_chain = <<>>

NextWide ==
    \/ MainGenerate
    \/ Construct
    \/ ProcessFile
    \/ ProcessDir
    \/ ProcessMissing
    \/ \E t \in Tasks : SkipTask(t)
    \/ \E t \in Tasks : LaunchTask(t)
    \/ \E t \in Tasks : EngineSucceeds(t)
    \/ \E t \in Tasks : EngineFails(t)
    \/ ReturnSingle
    \/ \E t \in Tasks : Collect(t)
    \/ PoolExit

SpecWide == InitWide /\ [][NextWide]_vars

-----------------------------------------------------------------------------
(* The program over input directories with unsupported, extensionless,
   upper-case and nested entries. *)

EnumPaths ==
    { Path(InputDir, <<"a", ".", "wav">>), Path(InputDir, <<"b", ".", "mp3">>),
      Path(InputDir, <<"readme", ".", "txt">>), Path(InputDir, <<"notes">>),
      Path(InputDir, <<"A", ".", "WAV">>),
      Path(InputDir \o "/sub", <<"c", ".", "wav">>) }

InitEnum ==
    /\ config = DefaultConfig
    /\ generate_config \in BOOLEAN
    /\ ffmpeg = "ok"
    /\ \E paths \in SUBSET EnumPaths, old \in SUBSET EarlierOutputs(config) :
          /\ Cardinality(paths) <= MaxFiles
          /\ fs = paths \cup old
          /\ \/ input_path = [kind |-> "dir", name |-> <<>>]
             \/ /\ paths = {}
                /\ input_path = [kind |-> "none", name |-> <<>>]
             \/ \E p \in paths :
                   /\ paths = {p} /\ p.dir = InputDir
                   /\ input_path = [kind |-> "file", name |-> p.name]
          /\ dirs = {p.dir : p \in fs}
                        \cup (IF input_path.kind = "none" THEN {} ELSE {InputDir})
    /\ pc = "main"
    /\ mode = "none"
    /\ audio_files = <<>>
    /\ status = <<>>
    /\ result = <<>>
    /\ cmd = <<>>
    /\ calls = <<>>
    /\ execs = <<>>
    /\ collected = {}
    /\ log = {}
    /\ run = 1
    /\ prevOk = FALSE
    /\ filter_chain = <<>>

SpecEnum == InitEnum /\ [][Next]_vars

-----------------------------------------------------------------------------
(* Vocabulary of the properties. *)

Failed == {t \in Tasks : status[t] = "Failed"}

AudioEntries ==
    {n \in entries(fs, InputDir) :
        \E i \in 1..Len(audio_extensions) : EndsWith(n, audio_extensions[i])}

\* the expressions of a chain: its pieces between the commas
ChainExprs(c) == IF c = <<>> THEN <<>> ELSE Split(c, ",")

BandExprs == {speech_bands[i] : i \in 1..Len(speech_bands)}
                 \cup {music_bands[i] : i \in 1..Len(music_bands)}

\* the stage an expression belongs to, by the filter it names: 1 noise
\* reduction, 2 normalization, 3 dynamic compression, 4 equalization, 0 none
StageOf(e) ==
    IF e = <<>> THEN 0
    ELSE IF Head(e) = "afftdn=nr=" THEN 1
    ELSE IF Head(e) = "loudnorm=I=" THEN 2
    ELSE IF Head(e) = "acompressor=threshold=" THEN 3
    ELSE IF e \in BandExprs THEN 4
    ELSE 0

StageEnabled(p, k) ==
    CASE k = 1 -> p.noise_reduction.enabled
      [] k = 2 -> p.normalization.enabled
      [] k = 3 -> p.compression.enabled
      [] k = 4 -> p.eq.enabled
      [] OTHER -> FALSE

NumEnabled(p) == Cardinality({k \in 1..4 : StageEnabled(p, k)})

\* how many expressions the stage contributes when enabled
StageSize(p, k) ==
    IF k < 4 THEN 1
    ELSE IF p.eq.preset = "speech" THEN 5
    ELSE IF p.eq.preset = "music" THEN 4
    ELSE 0

CountStage(es, k) == Cardinality({i \in 1..Len(es) : StageOf(es[i]) = k})

NoOuterSeparator(c) == c = <<>> \/ (c[1] # "," /\ c[Len(c)] # ",")

-----------------------------------------------------------------------------
(* The claims. *)

\* C1: when no task of the driver's first call on a directory failed (every
\* engine invocation succeeded and wrote its output), a second call on the
\* same directory with the same configuration invokes the engine for no file.
C1_SecondRunInvokesNothing ==
    (run >= 2 /\ prevOk) => \A t \in Tasks : calls[t] = 0

\* C2: in a directory batch no exception leaves process_audio_files, and when
\* the batch has returned with exactly one failed task, every other task was
\* executed and ended Succeeded or Skipped.
C2_FaultIsolation ==
    mode = "pool" =>
        /\ pc # "raised"
        /\ (pc = "returned" /\ Cardinality(Failed) = 1) =>
               \A t \in Tasks \ Failed :
                   execs[t] = 1 /\ status[t] \in {"Succeeded", "Skipped"}

\* a batch of three files has returned, the one failure being an engine that
\* could not be started
C2_Witness ==
    /\ mode = "pool" /\ pc = "returned" /\ Len(audio_files) = 3
    /\ \E t \in Tasks : Failed = {t} /\ result[t].kind = "exception"
    /\ \E t \in Tasks : status[t] = "Succeeded"

\* C3: a task whose engine invocation failed (non-zero exit or failure to
\* launch) returned None and logged an error naming its file, and no
\* exception leaves _process_single_file or process_audio_files.
C3_FailureIsAValue ==
    /\ pc # "raised"
    /\ \A t \in Tasks :
          status[t] = "Failed" =>
              /\ result[t] = ReturnedNone
              /\ Log("error", 191, audio_files[t]) \in log

\* C4: a task that starts while a file exists at the path the engine would
\* write for it (the compression format when enabled and different, the base
\* format otherwise) invokes no engine and returns that path.
C4_SkipOnExistingOutput ==
    [][\A t \in Tasks :
          (/\ audio_files' = audio_files
           /\ status[t] = "pending"
           /\ status'[t] # "pending"
           /\ output_path(config, audio_files[t]) \in fs)
          => (/\ calls'[t] = calls[t]
              /\ result'[t] = Returned(output_path(config, audio_files[t])))]_vars

\* C5: no two engine invocations of a batch that run at the same time write
\* the same output path.
C5_NoWriteContention ==
    \A t, u \in Tasks :
        (t # u /\ status[t] = "running" /\ status[u] = "running")
            => cmd_output(cmd[t]) # cmd_output(cmd[u])

\* C6: when a directory call has returned every task is terminal, and a
\* batch that has started returns, provided every engine invocation exits.
C6_WaitForAll ==
    /\ []((mode = "pool" /\ pc = "returned") =>
              \A t \in Tasks : status[t] \in Terminal)
    /\ ((pc = "pool") ~> (pc = "returned"))

\* a batch of three returned, with a failed, a succeeded and a skipped task
C6_Witness ==
    /\ mode = "pool" /\ pc = "returned" /\ Len(audio_files) = 3
    /\ \E t, u, v \in Tasks :
          status[t] = "Failed" /\ status[u] = "Succeeded" /\ status[v] = "Skipped"

\* C7: in one call every discovered file has exactly one task, no task is
\* executed twice, no task invokes the engine twice, and at the return every
\* task has been executed once.
C7_ExactlyOnce ==
    mode \in {"pool", "single"} =>
        /\ mode = "pool" =>
              \A n \in AudioEntries :
                  Cardinality({t \in Tasks : audio_files[t] = n}) = 1
        /\ \A t, u \in Tasks : audio_files[t] = audio_files[u] => t = u
        /\ \A t \in Tasks : execs[t] <= 1 /\ calls[t] <= 1
        /\ pc = "returned" => \A t \in Tasks : execs[t] = 1

\* a batch of three returned after a failed invocation that was made once
C7_Witness ==
    /\ mode = "pool" /\ pc = "returned" /\ Len(audio_files) = 3
    /\ \E t \in Tasks : status[t] = "Failed" /\ calls[t] = 1

\* C8: with the engine missing at construction, the run never gets past the
\* constructor: no task is created and no engine invocation is issued.
C8_DependencyMissingIsFatal ==
    ffmpeg # "ok" =>
        /\ pc \in {"main", "init", "exited", "done"}
        /\ mode = "none"
        /\ audio_files = <<>>
        /\ \A t \in Tasks : calls[t] = 0

\* the engine is missing, the input directory holds audio files, and the run
\* has stopped in the constructor
C8_Witness ==
    /\ ffmpeg = "FileNotFoundError" /\ pc = "exited"
    /\ input_path.kind = "dir" /\ AudioEntries # {}

\* C9: with several stages enabled, the chain is the enabled stages'
\* expressions separated by commas in the order noise reduction,
\* normalization, dynamic compression, equalization, whatever order the
\* configuration lists the stages in, with nothing of a disabled stage.
C9_FixedStageOrder ==
    (pc = "compiled" /\ NumEnabled(config.preprocessing) >= 2) =>
        LET es == ChainExprs(filter_chain)
            p == config.preprocessing
        IN  /\ \A i \in 1..Len(es) : StageOf(es[i]) \in 1..4
            /\ \A i, j \in 1..Len(es) : i < j => StageOf(es[i]) <= StageOf(es[j])
            /\ \A i \in 1..Len(es) : StageEnabled(p, StageOf(es[i]))
            /\ \A k \in 1..4 :
                  StageEnabled(p, k) => CountStage(es, k) = StageSize(p, k)

\* all four stages enabled, listed in the reverse order, and compiled
C9_Witness ==
    /\ pc = "compiled"
    /\ NumEnabled(config.preprocessing) = 4
    /\ config.preprocessing.keys
           = <<"eq", "compression", "normalization", "noise_reduction">>
    /\ Len(ChainExprs(filter_chain)) = 8

\* C10 as stated: with exactly one stage enabled the chain holds exactly one
\* expression, with no leading or trailing separator.
C10_SingleExpression ==
    (pc = "compiled" /\ NumEnabled(config.preprocessing) = 1) =>
        /\ Len(ChainExprs(filter_chain)) = 1
        /\ NoOuterSeparator(filter_chain)

\* C10 amended: with exactly one stage enabled the chain has no leading or
\* trailing separator and holds expressions of that stage only: one for noise
\* reduction, normalization or dynamic compression; the five (speech) or four
\* (music) band expressions for equalization; none for equalization with any
\* other preset.
C10_SingleStage ==
    (pc = "compiled" /\ NumEnabled(config.preprocessing) = 1) =>
        LET es == ChainExprs(filter_chain)
            p == config.preprocessing
            k == CHOOSE s \in 1..4 : StageEnabled(p, s)
        IN  /\ NoOuterSeparator(filter_chain)
            /\ \A i \in 1..Len(es) : StageOf(es[i]) = k
            /\ Len(es) = StageSize(p, k)

\* equalization alone, preset speech, compiled to five bands
C10_Witness ==
    /\ pc = "compiled"
    /\ NumEnabled(config.preprocessing) = 1
    /\ config.preprocessing.eq.enabled
    /\ Len(ChainExprs(filter_chain)) = 5

\* the strength the configuration gives, "unset" when it gives none
StrengthOf(p) ==
    IF "strength" \in DOMAIN p.noise_reduction THEN p.noise_reduction.strength
    ELSE "unset"

\* the configuration with the noise-reduction strength set to st
WithStrength(cfg, st) ==
    [cfg EXCEPT !.preprocessing.noise_reduction = [enabled |-> @.enabled, strength |-> st]]

\* C11: with noise reduction enabled the compiler never fails, whatever the
\* strength (low, medium, high, unknown or unset); low, medium and high give
\* the factors 0.2, 0.4 and 0.6, and any other or no strength gives the chain
\* that strength medium gives.
C11_StrengthTotal ==
    (pc # "compile" /\ config.preprocessing.noise_reduction.enabled) =>
        /\ pc = "compiled"
        /\ LET st == StrengthOf(config.preprocessing)
               nr == ChainExprs(filter_chain)[1]
           IN  /\ st = "low" => nr = <<"afftdn=nr=", "0.2", ":nf=-25">>
               /\ st = "medium" => nr = <<"afftdn=nr=", "0.4", ":nf=-25">>
               /\ st = "high" => nr = <<"afftdn=nr=", "0.6", ":nf=-25">>
               /\ st \notin {"low", "medium", "high"} =>
                      filter_chain = _build_filter_chain(WithStrength(config, "medium"))

\* the tasks for which a command was handed to subprocess.run
Invoked == {t \in Tasks : cmd[t] # <<>>}

HasFilter(c) == Len(c) >= 5 /\ c[4] = <<"-filter_complex">>

\* the arguments of a command between the input (and the filter, if any) and
\* the closing -y <output>
EncodingOf(c) ==
    IF HasFilter(c) THEN SubSeq(c, 6, Len(c) - 2) ELSE SubSeq(c, 4, Len(c) - 2)

\* the format the output takes: the compression format when compression is
\* enabled and that format differs from the base format, else the base format
FinalFormat(cfg) ==
    IF cfg.compression.enabled /\ cfg.compression.format # cfg.output.format
    THEN cfg.compression.format
    ELSE cfg.output.format

\* C12: the output argument of every engine invocation is
\* directory / (stem + suffix + "." + F), F the compression format when
\* compression is enabled and differs from the base format, else the base
\* format; a.wav with suffix _processed, base wav and compression to m4a
\* goes to a_processed.m4a.
C12_OutputPathDerivation ==
    \A t \in Invoked :
        /\ cmd_output(cmd[t]) =
               <<config.output.directory, "/">> \o stem(audio_files[t])
                   \o config.output.suffix \o <<".", FinalFormat(config)>>
        /\ (/\ audio_files[t] = <<"a", ".", "wav">>
            /\ config.output.suffix = <<"_processed">>
            /\ config.output.format = "wav"
            /\ config.compression.enabled /\ config.compression.format = "m4a")
           => SubSeq(cmd_output(cmd[t]), 3, Len(cmd_output(cmd[t])))
                  = <<"a", "_processed", ".", "m4a">>

\* a.b.wav is being converted to a.b_processed.m4a
C12_Witness ==
    \E t \in Invoked :
        /\ audio_files[t] = <<"a", ".", "b", ".", "wav">>
        /\ cmd_output(cmd[t]) =
               <<"processed_audio", "/", "a", ".", "b", "_processed", ".", "m4a">>

\* C13: the encoding options of every engine invocation are the configured
\* codec and bitrate when compression is enabled, 16-bit PCM when it is
\* disabled and the base format is wav, and none otherwise.
C13_EncodingOptions ==
    \A t \in Invoked :
        EncodingOf(cmd[t]) =
            IF config.compression.enabled
            THEN << <<"-c:a">>, <<config.compression.codec>>,
                    <<"-b:a">>, <<config.compression.bitrate>> >>
            ELSE IF config.output.format = "wav"
                 THEN << <<"-c:a">>, <<"pcm_s16le">> >>
                 ELSE <<>>

\* an invocation with compression off and base format mp3, and no option
C13_Witness ==
    \E t \in Invoked :
        /\ ~config.compression.enabled /\ config.output.format = "mp3"
        /\ EncodingOf(cmd[t]) = <<>>

\* C14: every command is engine, -i, input, then -filter_complex and the
\* chain exactly when the chain compiled from the configuration is not
\* empty, then the encoding options, then -y and the output; the commands of
\* one batch carry the same chain.
C14_CommandShape ==
    /\ \A t \in Invoked :
          LET c == cmd[t]
              chain == _build_filter_chain(config)
          IN  /\ Len(c) >= 5
              /\ SubSeq(c, 1, 3)
                     = << <<"ffmpeg">>, <<"-i">>, <<InputDir, "/">> \o audio_files[t] >>
              /\ HasFilter(c) <=> chain # <<>>
              /\ HasFilter(c) => c[5] = chain
              /\ EncodingOf(c) = encoding_options(config)
              /\ SubSeq(c, Len(c) - 1, Len(c))
                     = << <<"-y">>, str(output_path(config, audio_files[t])) >>
              /\ \A i \in 1..Len(c) :
                    c[i] = <<"-filter_complex">> => i = 4
    /\ \A t, u \in Invoked :
          /\ HasFilter(cmd[t]) <=> HasFilter(cmd[u])
          /\ HasFilter(cmd[t]) => cmd[t][5] = cmd[u][5]

\* two invocations of one batch without a chain, since no stage is enabled
C14_Witness ==
    /\ mode = "pool"
    /\ _build_filter_chain(config) = <<>>
    /\ \E t, u \in Invoked : t # u /\ ~HasFilter(cmd[t]) /\ ~HasFilter(cmd[u])

\* C20: no engine invocation has its own input as its output.
C20_InputNeverOverwritten ==
    \A t \in Invoked : cmd_output(cmd[t]) # cmd[t][3]

\* the extension of a name: its last dot and what follows it
Ext(n) == IF LastDot(n) = 0 THEN <<>> ELSE SubSeq(n, LastDot(n), Len(n))

Supported ==
    { <<".", "wav">>, <<".", "mp3">>, <<".", "m4a">>, <<".", "aac">>,
      <<".", "ogg">>, <<".", "flac">> }

\* the immediate entries of the input directory with a supported extension
Selected ==
    {n \in {p.name : p \in {q \in fs : q.dir = InputDir}} : Ext(n) \in Supported}

\* C15: for a directory the tasks are the immediate entries with one of the
\* six extensions, in the case listed, each once; a.wav, b.mp3 and readme.txt
\* give two tasks.
C15_DirectoryEnumeration ==
    /\ mode = "pool" =>
          /\ {audio_files[t] : t \in Tasks} = Selected
          /\ Len(audio_files) = Cardinality(Selected)
          /\ {p \in fs : p.dir = InputDir}
                 = {Path(InputDir, <<"a", ".", "wav">>), Path(InputDir, <<"b", ".", "mp3">>),
                    Path(InputDir, <<"readme", ".", "txt">>)}
                => Len(audio_files) = 2
    /\ (input_path.kind = "dir" /\ mode = "none" /\ pc = "returned") => Selected = {}

\* one task, for a.wav, beside A.WAV and sub/c.wav
C15_Witness ==
    /\ mode = "pool"
    /\ audio_files = << <<"a", ".", "wav">> >>
    /\ Path(InputDir, <<"A", ".", "WAV">>) \in fs
    /\ Path(InputDir \o "/sub", <<"c", ".", "wav">>) \in fs

\* all stages disabled, the strength unset and the preset music, compiled
C16_Witness ==
    /\ pc = "compiled"
    /\ NumEnabled(config.preprocessing) = 0
    /\ StrengthOf(config.preprocessing) = "unset"
    /\ config.preprocessing.eq.preset = "music"
    /\ filter_chain = <<>>

\* C16: with the four stages disabled the compiler returns the empty
\* expression, whatever the other parameters.
C16_AllDisabledIsEmpty ==
    (pc # "compile" /\ NumEnabled(config.preprocessing) = 0) =>
        (pc = "compiled" /\ filter_chain = <<>>)

\* the input resolves to no file: it does not exist, or it is a directory
\* without an entry of a supported extension
NoInput ==
    \/ input_path.kind = "none"
    \/ input_path.kind = "dir" /\ Selected = {}

\* C17: when the input resolves to no file, process_audio_files logs a
\* warning or an error and returns, without a task, an engine invocation, a
\* change to a file or an exception.
C17_EmptyInputIsNotFatal ==
    [][NoInput =>
          /\ fs' = fs
          /\ audio_files' = <<>>
          /\ pc' # "raised"
          /\ pc = "constructed" =>
                /\ pc' = "returned"
                /\ \E m \in log' \ log : m.level \in {"warning", "error"}]_vars

\* a directory holding only readme.txt, A.WAV and sub/c.wav was given and the
\* call has returned
C17_Witness ==
    /\ input_path.kind = "dir" /\ pc = "returned" /\ NoInput
    /\ Cardinality(fs) = 3
    /\ \E m \in log : m.line = 105

\* C18: no step of process_audio_files or of a task changes the
\* configuration, and every command carries the chain compiled from it.
C18_ConfigReadOnly ==
    [][/\ pc # "main" => config' = config
       /\ \A t \in 1..Len(cmd') :
             (cmd'[t] # <<>> /\ HasFilter(cmd'[t]))
                 => cmd'[t][5] = _build_filter_chain(config)]_vars

\* a batch has returned after two invocations with a chain
C18_Witness ==
    /\ mode = "pool" /\ pc = "returned"
    /\ \E t, u \in Invoked : t # u /\ HasFilter(cmd[t]) /\ HasFilter(cmd[u])
    /\ config.compression.enabled

\* C19: a task is Skipped only if a file exists at the path the engine would
\* have written for it.
C19_SkipImpliesOutputExists ==
    \A t \in Tasks :
        status[t] = "Skipped" => output_path(config, audio_files[t]) \in fs

====
